---------------------------- MODULE Spec2Model ----------------------------
(***************************************************************************)
(* A model of survey_creation/creating_survey.py: one run of main(), which  *)
(* merges the global header and description templates with the per-survey  *)
(* overrides, writes them to the TSV file, then walks the rows of the      *)
(* survey CSV and writes group, question, sub-question and answer rows.    *)
(*                                                                         *)
(* Python dictionaries and lists are objects shared by reference.  Every   *)
(* dictionary is an object of `heap', named by an identifier <<kind, i>>;  *)
(* a list is a sequence of identifiers.  An in-place change of a           *)
(* dictionary is a change of heap, seen through every list that holds it.  *)
(***************************************************************************)
EXTENDS Integers, Sequences, FiniteSets, TLC

VARIABLES
    pc,                     \* the statement of main() that runs next
    heap,                   \* identifier -> dictionary (field name -> string)
    global_headers,         \* main_config.global_headers: list of identifiers
    global_description,     \* main_config.global_description
    header_to_modify,       \* specific_config.header_to_modify
    header_to_add,          \* specific_config.header_to_add: <<identifier, position>>
    description_to_modify,  \* specific_config.description_to_modify
    description_to_add,     \* specific_config.description_to_add
    welcome_message,        \* get_text(folder, 'welcome')
    end_message,            \* get_text(folder, 'end')
    config_header,          \* main(): the list create_header returned
    config_description,     \* main(): the list create_description returned
    outfile,                \* the lines of <folder>_to_import.txt, each a tuple of fields
    survey_file,            \* the rows of <folder>.csv
    listAnswers,            \* the characters of listAnswers/<answer_file>.csv
    row_idx,                \* the rows of survey_file the walker has consumed
    nbr_section,            \* main(): the current section index
    answers                 \* the list the last call of get_answer returned

vars == <<pc, heap, global_headers, global_description, header_to_modify,
          header_to_add, description_to_modify, description_to_add,
          welcome_message, end_message, config_header, config_description,
          outfile, survey_file, listAnswers, row_idx, nbr_section, answers>>

-----------------------------------------------------------------------------
(* Bounds of the model.                                                    *)

\* the longest global template list
MaxList == 2
\* the most rows of a survey file
MaxRows == 3
\* the largest section number of a survey row
MaxSection == 3
\* the most characters of an answer file
MaxLen == 3

-----------------------------------------------------------------------------
(* Helpers.                                                                *)

Min(S) == CHOOSE x \in S : \A y \in S : x <= y

Max(a, b) == IF a >= b THEN a ELSE b

\* d[k] = v on a Python dictionary
SetField(d, k, v) == [f \in (DOMAIN d) \cup {k} |-> IF f = k THEN v ELSE d[f]]

\* ''.join(chars)
RECURSIVE Join(_)
Join(chars) == IF chars = <<>> THEN "" ELSE Head(chars) \o Join(Tail(chars))

\* the sequences over S of length at most n
SeqsUpTo(S, n) == UNION {[1..k -> S] : k \in 0..n}

-----------------------------------------------------------------------------
(* config.config.creationConfig: the schema and the row templates.         *)

main_headers ==
    <<"class", "type/scale", "name", "relevance", "text", "help", "language", "other">>

GroupFormat == <<"group_format", 0>>
OneChoiceQuestion == <<"one_choice_question", 0>>
OneChoiceAnswer == <<"one_choice_answer", 0>>
RankingQuestion == <<"ranking_question", 0>>
RankingAnswer == <<"ranking_answer", 0>>

Templates ==
    (GroupFormat :> (("type/scale" :> "") @@ [class |-> "G", name |-> "section", relevance |-> "1"]))
    @@ (OneChoiceQuestion :> (("type/scale" :> "L") @@ [class |-> "Q", relevance |-> "1"]))
    @@ (OneChoiceAnswer :> (("type/scale" :> "0") @@ [class |-> "A"]))
    @@ (RankingQuestion :> (("type/scale" :> "R") @@ [class |-> "Q", relevance |-> "1"]))
    @@ (RankingAnswer :> (("type/scale" :> "0") @@ [class |-> "A"]))


-----------------------------------------------------------------------------
(* The output writer.                                                      *)

\* DictRow gone wrong: the values of the fields the row holds, and no '' for
\* the fields it does not hold
DictRow_present_only(row) ==
    LET present == {i \in 1..Len(main_headers) : main_headers[i] \in DOMAIN row}
        RECURSIVE pick(_)
        pick(i) == IF i > Len(main_headers) THEN <<>>
                   ELSE (IF i \in present THEN <<row[main_headers[i]]>> ELSE <<>>)
                            \o pick(i + 1)
    IN  pick(1)

\* csv.DictWriter.writerow with fieldnames = main_headers: the row's values in
\* the order of main_headers, '' for a field the row does not hold
DictRow(row) ==
    [i \in 1..Len(main_headers) |->
        IF main_headers[i] \in DOMAIN row THEN row[main_headers[i]] ELSE ""]

\* csv.DictWriter raises ValueError (extrasaction = 'raise') on a row with a
\* key that is not a field name, before it writes anything
Writable(row) == DOMAIN row \subseteq {main_headers[i] : i \in 1..Len(main_headers)}

\* init_outfile: the file is truncated and holds the header line
init_outfile == <<main_headers>>

\* write_row_outfile for each row of `rows' in turn, up to the first row the
\* writer refuses: the file afterwards, and whether every row was written
RECURSIVE write_rows(_, _)
write_rows(out, rows) ==
    IF rows = <<>> THEN [out |-> out, ok |-> TRUE]
    ELSE IF ~Writable(Head(rows)) THEN [out |-> out, ok |-> FALSE]
    ELSE write_rows(Append(out, DictRow(Head(rows))), Tail(rows))

\* add_from_list: a fresh empty row updated with each element, written in turn
add_from_list(out, list_to_copy, h) ==
    write_rows(out, [i \in 1..Len(list_to_copy) |->
                        [f \in {main_headers[j] : j \in 1..Len(main_headers)}
                               \cup DOMAIN h[list_to_copy[i]] |->
                            IF f \in DOMAIN h[list_to_copy[i]]
                            THEN h[list_to_copy[i]][f] ELSE ""]])

-----------------------------------------------------------------------------
(* The override merger.                                                    *)

\* to_modify: a new list; each element of original_list is replaced by the
\* first element of modified_list with the same name, if there is one
to_modify(original_list, modified_list, h) ==
    [i \in 1..Len(original_list) |->
        LET element == original_list[i]
            same == {j \in 1..Len(modified_list) :
                        h[element]["name"] = h[modified_list[j]]["name"]}
        IN  IF same = {} THEN element ELSE modified_list[Min(same)]]

\* ListInsert gone wrong: every negative index means the start of the list
ListInsert_negative_first(l, i, x) ==
    LET n == Len(l)
        k == IF i < 0 THEN 0 ELSE IF i > n THEN n ELSE i
    IN  SubSeq(l, 1, k) \o <<x>> \o SubSeq(l, k + 1, n)

\* list.insert(i, x): an index beyond either end is clamped to that end
ListInsert(l, i, x) ==
    LET n == Len(l)
        k == IF i < 0 THEN Max(i + n, 0) ELSE IF i > n THEN n ELSE i
    IN  SubSeq(l, 1, k) \o <<x>> \o SubSeq(l, k + 1, n)

\* to_add: inserts each obj[0] at obj[1] into original_list itself, and
\* returns original_list (the same list object)
RECURSIVE to_add(_, _)
to_add(original_list, list_to_add) ==
    IF list_to_add = <<>> THEN original_list
    ELSE to_add(ListInsert(original_list, Head(list_to_add)[2], Head(list_to_add)[1]),
                Tail(list_to_add))

\* create_header: the list to_modify returns is dropped; the list returned is
\* main_config.global_headers itself, after to_add changed it in place
create_header(globals, to_modify_list, to_add_list, h) ==
    LET good_parameters == to_modify(globals, to_modify_list, h)
    IN  to_add(globals, to_add_list)

\* add_text_message: the first element named surveyls_welcometext or
\* surveyls_endtext gets the message as its text, in place, when type_message
\* is 'welcome' (both branches test 'welcome'); the heap afterwards
add_text_message(full_list, message, type_message, h) ==
    LET hit == {i \in 1..Len(full_list) :
                   \/ h[full_list[i]]["name"] = "surveyls_welcometext"
                        /\ type_message = "welcome"
                   \/ h[full_list[i]]["name"] = "surveyls_endtext"
                        /\ type_message = "welcome"}
    IN  IF hit = {} THEN h
        ELSE [h EXCEPT ![full_list[Min(hit)]] = SetField(@, "text", message)]

\* create_description: as create_header on main_config.global_description, then
\* the two messages; the list returned (the new list add_text_message builds
\* holds the objects of global_description in its order) and the heap afterwards
create_description(globals, to_modify_list, to_add_list, welcome, end, h) ==
    LET good_description == to_modify(globals, to_modify_list, h)
        added == to_add(globals, to_add_list)
        h1 == add_text_message(added, welcome, "welcome", h)
        h2 == add_text_message(added, end, "end", h1)
    IN  [list |-> added, heap |-> h2]

-----------------------------------------------------------------------------
(* The answer list loader and the label of an answer.                      *)

\* f.readlines(): the file cut after each line terminator, terminators kept
RECURSIVE readlines(_)
readlines(content) ==
    IF content = <<>> THEN <<>>
    ELSE LET nl == {i \in 1..Len(content) : content[i] = "\n"}
             cut == IF nl = {} THEN Len(content) ELSE Min(nl)
         IN  <<SubSeq(content, 1, cut)>>
                \o readlines(SubSeq(content, cut + 1, Len(content)))

\* get_answer: x[:-1] of each line, whatever its last character is
get_answer(content) ==
    [i \in 1..Len(readlines(content)) |->
        SubSeq(readlines(content)[i], 1, Len(readlines(content)[i]) - 1)]

\* text.split(';')[0]: the characters before the first ';'
FirstField(text) ==
    LET semi == {i \in 1..Len(text) : text[i] = ";"}
    IN  IF semi = {} THEN text ELSE SubSeq(text, 1, Min(semi) - 1)

\* text.strip('"'): every leading and every trailing '"' removed
RECURSIVE StripQuotes(_)
StripQuotes(text) ==
    IF text = <<>> THEN text
    ELSE IF Head(text) = "\"" THEN StripQuotes(Tail(text))
    ELSE IF text[Len(text)] = "\"" THEN StripQuotes(SubSeq(text, 1, Len(text) - 1))
    ELSE text

\* text_answer.split(';')[0].strip('"')
Label(text_answer) == Join(StripQuotes(FirstField(text_answer)))

\* str.lower() on the answer formats of the model
Lower(s) ==
    CASE s = "One Choice" -> "one choice"
      [] s = "Ranking" -> "ranking"
      [] s = "Likert" -> "likert"
      [] s = "FreeNumeric" -> "freenumeric"
      [] s = "FreeText" -> "freetext"
      [] s = "Multiple Choice" -> "multiple choice"
      [] OTHER -> s

-----------------------------------------------------------------------------
(* The survey row walker: the rows one pass of the loop body writes.       *)

\* range(1, 9): the ranks of a ranking question
NbrRanks == 8

\* the group row: group_format with type/scale and language set in place
group_row(h, n) ==
    SetField(SetField(h[GroupFormat], "type/scale", "G" \o ToString(n)),
             "language", "en")

\* the answer row number n: the template with name, text, language set in place
answer_row(template, n, text_answer) ==
    SetField(SetField(SetField(template, "name", ToString(n)),
                      "text", Label(text_answer)),
             "language", "en")

\* the answer rows of a question, and the heap after the loop over the answers
answer_rows(h, obj, loaded) ==
    [rows |-> [n \in 1..Len(loaded) |-> answer_row(h[obj], n, loaded[n])],
     heap |-> IF loaded = <<>> THEN h
              ELSE [h EXCEPT ![obj] = answer_row(h[obj], Len(loaded), loaded[Len(loaded)])]]

\* the eight sub-question rows of a ranking question
rank_rows ==
    [i \in 1..NbrRanks |->
        ("type/scale" :> "0")
        @@ [class |-> "SQ", name |-> ToString(i), relevance |-> "1",
            text |-> "Rank " \o ToString(i), language |-> "en"]]

\* answer_format 'one choice': the question row, then one row per answer
one_choice(row, h, content) ==
    LET question == SetField(SetField(SetField(SetField(h[OneChoiceQuestion],
                        "name", row.code), "text", row.question),
                        "language", "en"), "other", "Y")
        h1 == [h EXCEPT ![OneChoiceQuestion] = question]
        a == answer_rows(h1, OneChoiceAnswer, get_answer(content))
    IN  [rows |-> <<question>> \o a.rows, heap |-> a.heap,
         answers |-> get_answer(content), ok |-> TRUE]

\* ranking gone wrong: one rank row per answer instead of eight
ranking_rank_per_answer(row, h, content) ==
    LET question == SetField(SetField(SetField(h[RankingQuestion],
                        "name", row.code), "text", row.question),
                        "language", "en")
        h1 == [h EXCEPT ![RankingQuestion] = question]
        a == answer_rows(h1, RankingAnswer, get_answer(content))
    IN  [rows |-> <<question>>
                    \o SubSeq(rank_rows, 1, Len(get_answer(content)))
                    \o a.rows,
         heap |-> a.heap, answers |-> get_answer(content), ok |-> TRUE]

\* answer_format 'ranking': the question row, the rank rows, the answer rows
ranking(row, h, content) ==
    LET question == SetField(SetField(SetField(h[RankingQuestion],
                        "name", row.code), "text", row.question),
                        "language", "en")
        h1 == [h EXCEPT ![RankingQuestion] = question]
        a == answer_rows(h1, RankingAnswer, get_answer(content))
    IN  [rows |-> <<question>> \o rank_rows \o a.rows, heap |-> a.heap,
         answers |-> get_answer(content), ok |-> TRUE]

\* answer_format 'likert', 'freenumeric', 'freetext', 'multiple choice': pass
Unimplemented == {"likert", "freenumeric", "freetext", "multiple choice"}

\* unimplemented gone wrong: the branch raises instead of passing
unimplemented_raises(row, h, loaded) ==
    [rows |-> <<>>, heap |-> h, answers |-> loaded, ok |-> FALSE]

unimplemented(row, h, loaded) ==
    [rows |-> <<>>, heap |-> h, answers |-> loaded, ok |-> TRUE]

\* section_changed gone wrong: the 1-based section compared as it is
section_changed_no_offset(row, nbr) == row.section # nbr

\* int(row['section']) - 1 != nbr_section
section_changed(row, nbr) == row.section - 1 # nbr

\* the dispatch on answer_format; a format no branch tests writes nothing
dispatch(row, h, content, loaded) ==
    CASE Lower(row.answer_format) = "one choice" -> one_choice(row, h, content)
      [] Lower(row.answer_format) = "ranking" -> ranking(row, h, content)
      [] Lower(row.answer_format) \in Unimplemented -> unimplemented(row, h, loaded)
      [] OTHER -> [rows |-> <<>>, heap |-> h, answers |-> loaded, ok |-> TRUE]

-----------------------------------------------------------------------------
(* The inputs of a run: the configuration lists, the survey file and the   *)
(* answer file.  A run varies one of them widely and holds the others to   *)
(* one value.                                                              *)

\* the class of a settings row ("S") and of a language settings row ("SL")
ClassOf(n) == IF n \in {"sid", "admin", "added"} THEN "S" ELSE "SL"

TemplateRecord(n) == [class |-> ClassOf(n), name |-> n, text |-> "default"]

\* the i-th record of a to_modify list: same name, another text
OverrideRecord(n, i) == [class |-> ClassOf(n), name |-> n, text |-> "override" \o ToString(i)]

\* a record of a to_add list, with the name n
AddedRecord(n) == [class |-> ClassOf(n), name |-> n, text |-> "added"]

\* a record with a key that is no field of main_headers
UnknownKeyRecord(n) ==
    [class |-> ClassOf(n), name |-> n, text |-> "added", comment |-> "x"]

\* the to_add lists: none, one record at any position within or beyond the
\* list, and two records
AddLists(n) ==
    {<<>>}
    \cup {<<[rec |-> r, pos |-> p]>> :
            r \in {AddedRecord(n), UnknownKeyRecord(n)},
            p \in -(MaxList + 1)..(MaxList + 1)}
    \cup {<<[rec |-> AddedRecord(n), pos |-> 0], [rec |-> AddedRecord(n), pos |-> 0]>>,
          <<[rec |-> AddedRecord(n), pos |-> MaxList + 2],
            [rec |-> AddedRecord(n), pos |-> -1]>>}

HeaderNames == {"sid", "admin"}
DescriptionNames == {"surveyls_welcometext", "surveyls_endtext"}

Formats ==
    {"One Choice", "one choice", "Ranking", "Likert", "likert", "FreeNumeric",
     "FreeText", "Multiple Choice", "date"}

\* the characters of an answer file
Chars == {"a", ";", "\"", "\n"}

\* an answer file of more lines than a ranking question has ranks
LongFile == [i \in 1..(2 * (NbrRanks + 1)) |-> IF i % 2 = 1 THEN "a" ELSE "\n"]

DefaultInput ==
    [hbase |-> <<"sid", "admin">>, hmod |-> <<>>, hadd |-> <<>>,
     dbase |-> <<"surveyls_welcometext", "surveyls_endtext">>, dmod |-> <<>>,
     dadd |-> <<>>,
     rows |-> <<[section |-> 1, answer_format |-> "One Choice"],
                [section |-> 2, answer_format |-> "Likert"]>>,
     content |-> <<"\"", "a", "\"", ";", "a", "\n", "a", "\n">>]

HeaderInputs ==
    {[DefaultInput EXCEPT !.hbase = b, !.hmod = m, !.hadd = a] :
        b \in SeqsUpTo(HeaderNames, MaxList),
        m \in SeqsUpTo(HeaderNames, MaxList),
        a \in AddLists("added")}

DescriptionInputs ==
    {[DefaultInput EXCEPT !.dbase = b, !.dmod = m, !.dadd = a] :
        b \in SeqsUpTo(DescriptionNames, MaxList),
        m \in SeqsUpTo(DescriptionNames, MaxList),
        a \in AddLists("surveyls_title")}

SectionInputs ==
    {[DefaultInput EXCEPT !.rows = r] :
        r \in SeqsUpTo([section : 1..MaxSection,
                        answer_format : {"One Choice", "Likert"}], MaxRows)
              \cup {[i \in 1..5 |-> [section |-> <<1, 1, 2, 2, 4>>[i],
                                     answer_format |-> "One Choice"]]}}

AnswerInputs ==
    {[DefaultInput EXCEPT !.rows = <<[section |-> n, answer_format |-> f]>>,
                          !.content = c] :
        n \in {1, 2}, f \in Formats, c \in SeqsUpTo(Chars, MaxLen) \cup {LongFile}}

Inputs == HeaderInputs \cup DescriptionInputs \cup SectionInputs \cup AnswerInputs

\* the identifiers of the n objects of a kind, in list order
Ids(kind, n) == [i \in 1..n |-> <<kind, i>>]

\* the objects of a kind: the i-th holds recs[i]
Objects(kind, recs) == [o \in {<<kind, i>> : i \in 1..Len(recs)} |-> recs[o[2]]]

Init ==
    \E in \in Inputs :
        /\ pc = "init_outfile"
        /\ heap = Templates
            @@ Objects("global_headers", [i \in 1..Len(in.hbase) |-> TemplateRecord(in.hbase[i])])
            @@ Objects("header_to_modify", [i \in 1..Len(in.hmod) |-> OverrideRecord(in.hmod[i], i)])
            @@ Objects("header_to_add", [i \in 1..Len(in.hadd) |-> in.hadd[i].rec])
            @@ Objects("global_description", [i \in 1..Len(in.dbase) |-> TemplateRecord(in.dbase[i])])
            @@ Objects("description_to_modify", [i \in 1..Len(in.dmod) |-> OverrideRecord(in.dmod[i], i)])
            @@ Objects("description_to_add", [i \in 1..Len(in.dadd) |-> in.dadd[i].rec])
        /\ global_headers = Ids("global_headers", Len(in.hbase))
        /\ header_to_modify = Ids("header_to_modify", Len(in.hmod))
        /\ header_to_add = [i \in 1..Len(in.hadd) |-> <<<<"header_to_add", i>>, in.hadd[i].pos>>]
        /\ global_description = Ids("global_description", Len(in.dbase))
        /\ description_to_modify = Ids("description_to_modify", Len(in.dmod))
        /\ description_to_add =
              [i \in 1..Len(in.dadd) |-> <<<<"description_to_add", i>>, in.dadd[i].pos>>]
        /\ welcome_message = "<p>Welcome</p>"
        /\ end_message = "<p>Thanks</p>"
        /\ config_header = <<>>
        /\ config_description = <<>>
        /\ outfile = <<>>
        /\ survey_file =
              [i \in 1..Len(in.rows) |->
                  [section |-> in.rows[i].section, code |-> "Q" \o ToString(i),
                   question |-> "Question " \o ToString(i),
                   answer_format |-> in.rows[i].answer_format,
                   answer_file |-> "answers"]]
        /\ listAnswers = in.content
        /\ row_idx = 0
        /\ nbr_section = 0
        /\ answers = <<>>

-----------------------------------------------------------------------------
(* main(), statement by statement.                                         *)

\* outfile = init_outfile(folder)
MainInitOutfile ==
    /\ pc = "init_outfile"
    /\ outfile' = init_outfile
    /\ pc' = "create_header"
    /\ UNCHANGED <<heap, global_headers, global_description, header_to_modify,
                   header_to_add, description_to_modify, description_to_add,
                   welcome_message, end_message, config_header, config_description,
                   survey_file, listAnswers, row_idx, nbr_section, answers>>

\* config_header = create_header(main_config, specific_config): to_add changes
\* main_config.global_headers in place and returns it
MainCreateHeader ==
    /\ pc = "create_header"
    /\ global_headers' =
          create_header(global_headers, header_to_modify, header_to_add, heap)
    /\ config_header' = global_headers'
    /\ pc' = "add_header"
    /\ UNCHANGED <<heap, global_description, header_to_modify, header_to_add,
                   description_to_modify, description_to_add, welcome_message,
                   end_message, config_description, outfile, survey_file,
                   listAnswers, row_idx, nbr_section, answers>>

\* add_from_list(outfile, config_header)
MainAddHeader ==
    /\ pc = "add_header"
    /\ LET w == add_from_list(outfile, config_header, heap)
       IN  /\ outfile' = w.out
           /\ pc' = IF w.ok THEN "create_description" ELSE "failed"
    /\ UNCHANGED <<heap, global_headers, global_description, header_to_modify,
                   header_to_add, description_to_modify, description_to_add,
                   welcome_message, end_message, config_header, config_description,
                   survey_file, listAnswers, row_idx, nbr_section, answers>>

\* config_description = create_description(main_config, specific_config,
\* welcome_message, end_message): the list returned holds the objects of
\* main_config.global_description, which to_add changed in place
MainCreateDescription ==
    /\ pc = "create_description"
    /\ LET d == create_description(global_description, description_to_modify,
                                   description_to_add, welcome_message,
                                   end_message, heap)
       IN  /\ global_description' = d.list
           /\ config_description' = d.list
           /\ heap' = d.heap
    /\ pc' = "add_description"
    /\ UNCHANGED <<global_headers, header_to_modify, header_to_add,
                   description_to_modify, description_to_add, welcome_message,
                   end_message, config_header, outfile, survey_file, listAnswers,
                   row_idx, nbr_section, answers>>

\* add_from_list(outfile, config_description)
MainAddDescription ==
    /\ pc = "add_description"
    /\ LET w == add_from_list(outfile, config_description, heap)
       IN  /\ outfile' = w.out
           /\ pc' = IF w.ok THEN "first_group" ELSE "failed"
    /\ UNCHANGED <<heap, global_headers, global_description, header_to_modify,
                   header_to_add, description_to_modify, description_to_add,
                   welcome_message, end_message, config_header, config_description,
                   survey_file, listAnswers, row_idx, nbr_section, answers>>

\* nbr_section = 0 and the first group row, written before the loop
MainFirstGroup ==
    /\ pc = "first_group"
    /\ nbr_section' = 0
    /\ heap' = [heap EXCEPT ![GroupFormat] = group_row(heap, 0)]
    /\ LET w == write_rows(outfile, <<group_row(heap, 0)>>)
       IN  /\ outfile' = w.out
           /\ pc' = IF w.ok THEN "rows" ELSE "failed"
    /\ UNCHANGED <<global_headers, global_description, header_to_modify,
                   header_to_add, description_to_modify, description_to_add,
                   welcome_message, end_message, config_header, config_description,
                   survey_file, listAnswers, row_idx, answers>>

\* one pass of the loop over read_survey_file(folder): the group row when the
\* section changes, then the rows of the answer format
MainRow ==
    /\ pc = "rows"
    /\ row_idx < Len(survey_file)
    /\ LET row == survey_file[row_idx + 1]
           changed == section_changed(row, nbr_section)
           n == IF changed THEN row.section - 1 ELSE nbr_section
           h1 == IF changed THEN [heap EXCEPT ![GroupFormat] = group_row(heap, n)]
                 ELSE heap
           group == IF changed THEN <<group_row(heap, n)>> ELSE <<>>
           r == dispatch(row, h1, listAnswers, answers)
           w == write_rows(outfile, group \o r.rows)
       IN  /\ nbr_section' = n
           /\ heap' = r.heap
           /\ answers' = r.answers
           /\ outfile' = w.out
           /\ pc' = IF w.ok /\ r.ok THEN "rows" ELSE "failed"
    /\ row_idx' = row_idx + 1
    /\ UNCHANGED <<global_headers, global_description, header_to_modify,
                   header_to_add, description_to_modify, description_to_add,
                   welcome_message, end_message, config_header, config_description,
                   survey_file, listAnswers>>

\* the survey file is exhausted: main() returns
MainReturn ==
    /\ pc = "rows"
    /\ row_idx = Len(survey_file)
    /\ pc' = "done"
    /\ UNCHANGED <<heap, global_headers, global_description, header_to_modify,
                   header_to_add, description_to_modify, description_to_add,
                   welcome_message, end_message, config_header, config_description,
                   outfile, survey_file, listAnswers, row_idx, nbr_section, answers>>

Next ==
    \/ MainInitOutfile
    \/ MainCreateHeader
    \/ MainAddHeader
    \/ MainCreateDescription
    \/ MainAddDescription
    \/ MainFirstGroup
    \/ MainRow
    \/ MainReturn

Spec == Init /\ [][Next]_vars

-----------------------------------------------------------------------------
(* The properties.                                                         *)

\* the lines a step appends to the output file
Appended == SubSeq(outfile', Len(outfile) + 1, Len(outfile'))

\* the column of a field, and the field of a line
Col(f) == CHOOSE i \in 1..Len(main_headers) : main_headers[i] = f
Field(line, f) == line[Col(f)]

\* the record with the name of base[i] that comes first in overrides, or
\* base[i] when there is none
Layered(base, overrides, h) ==
    [i \in 1..Len(base) |->
        IF \E j \in 1..Len(overrides) : h[overrides[j]]["name"] = h[base[i]]["name"]
        THEN overrides[CHOOSE j \in 1..Len(overrides) :
                /\ h[overrides[j]]["name"] = h[base[i]]["name"]
                /\ \A k \in 1..(j - 1) : h[overrides[k]]["name"] # h[base[i]]["name"]]
        ELSE base[i]]

\* C1: the list create_header and create_description return holds, at each
\* position whose base element's name matches a replacement, the first such
\* replacement, and the base element elsewhere (the insertions applied to
\* that list)
MergeOverride ==
    [][/\ pc = "create_header" =>
            config_header' = to_add(Layered(global_headers, header_to_modify, heap),
                                    header_to_add)
       /\ pc = "create_description" =>
            config_description' =
                to_add(Layered(global_description, description_to_modify, heap),
                       description_to_add)]_vars

\* C2: the global template lists keep their length, order and elements
\* through create_header and create_description
BaseListNotMutated ==
    [][/\ global_headers' = global_headers
       /\ global_description' = global_description
       /\ \A i \in 1..Len(global_headers) :
            heap'[global_headers[i]] = heap[global_headers[i]]
       /\ \A i \in 1..Len(global_description) :
            heap'[global_description[i]] = heap[global_description[i]]]_vars

\* the first position of a record named n in a list, 0 when there is none
FirstNamed(list, n, h) ==
    IF \E i \in 1..Len(list) : h[list[i]]["name"] = n
    THEN Min({i \in 1..Len(list) : h[list[i]]["name"] = n})
    ELSE 0

\* C4: when the description holds a surveyls_welcometext and a
\* surveyls_endtext record, create_description sets the text of the first
\* surveyls_welcometext to the welcome message and the text of the first
\* surveyls_endtext to the end message, and changes no other record's text
TwoSubstitutions ==
    [][pc = "create_description" =>
        LET d == config_description'
            w == FirstNamed(d, "surveyls_welcometext", heap)
            e == FirstNamed(d, "surveyls_endtext", heap)
        IN  (w > 0 /\ e > 0) =>
                /\ heap'[d[w]]["text"] = welcome_message
                /\ heap'[d[e]]["text"] = end_message
                /\ \A i \in (1..Len(d)) \ {w, e} :
                      heap'[d[i]]["text"] = heap[d[i]]["text"]]_vars

\* an insertion whose position is outside the index range of the list it is
\* applied to
RECURSIVE OutOfRange(_, _)
OutOfRange(n, insertions) ==
    /\ insertions # <<>>
    /\ \/ Head(insertions)[2] > n
       \/ Head(insertions)[2] < -n
       \/ OutOfRange(n + 1, Tail(insertions))

RECURSIVE Clamped(_, _)
Clamped(list, insertions) ==
    IF insertions = <<>> THEN list
    ELSE LET x == Head(insertions)[1]
             p == Head(insertions)[2]
             n == Len(list)
         IN  Clamped(IF p > n THEN list \o <<x>>
                     ELSE IF p < -n THEN <<x>> \o list
                     ELSE IF p >= 0 THEN SubSeq(list, 1, p) \o <<x>> \o SubSeq(list, p + 1, n)
                     ELSE SubSeq(list, 1, n + p) \o <<x>> \o SubSeq(list, n + p + 1, n),
                     Tail(insertions))

-----------------------------------------------------------------------------
(* The properties of the survey row walker.                                *)

\* the row the walker handles next, and the row it handled last
NextRow == survey_file[row_idx + 1]
LastRow == survey_file[row_idx]

AtRow == pc = "rows" /\ row_idx < Len(survey_file)

IsGroup(line) == Field(line, "class") = "G"

\* C3 as stated: a row whose answer format is one of the four unimplemented
\* ones ends the run in failure
UnimplementedTypeFails ==
    [][(AtRow /\ Lower(NextRow.answer_format) \in Unimplemented)
            => pc' = "failed"]_vars

\* C3 amended: a row whose answer format is one of the four unimplemented
\* ones writes no question, sub-question or answer row (the group row alone,
\* when the section changes) and the walker goes on to the next row
UnimplementedTypeSkipped ==
    [][(AtRow /\ Lower(NextRow.answer_format) \in Unimplemented)
            => /\ pc' = "rows"
               /\ row_idx' = row_idx + 1
               /\ Len(Appended) = (IF NextRow.section - 1 # nbr_section THEN 1 ELSE 0)
               /\ \A i \in 1..Len(Appended) : IsGroup(Appended[i])]_vars

\* C3 witness: the walker has gone past a row of an unimplemented format to
\* the row after it
UnimplementedRowPassed ==
    /\ pc \in {"rows", "done"}
    /\ row_idx >= 2
    /\ survey_file[row_idx - 1].answer_format = "Likert"

\* C5: the group row G0 is written before any survey row is handled; a
\* survey row writes the group row "G" + (section - 1), first of its rows,
\* exactly when section - 1 is not the current section index, which becomes
\* section - 1; no other group row is written
GroupSequencing ==
    [][/\ pc = "first_group" =>
            /\ row_idx = 0
            /\ Len(Appended) = 1
            /\ IsGroup(Appended[1])
            /\ Field(Appended[1], "type/scale") = "G0"
       /\ AtRow =>
            /\ nbr_section' = NextRow.section - 1
            /\ NextRow.section - 1 # nbr_section =>
                  /\ Appended # <<>>
                  /\ IsGroup(Appended[1])
                  /\ Field(Appended[1], "type/scale")
                        = "G" \o ToString(NextRow.section - 1)
                  /\ \A i \in 2..Len(Appended) : ~IsGroup(Appended[i])
            /\ NextRow.section - 1 = nbr_section =>
                  \A i \in 1..Len(Appended) : ~IsGroup(Appended[i])
       /\ (pc \notin {"first_group", "rows"}) =>
            \A i \in 1..Len(Appended) : ~IsGroup(Appended[i])]_vars

\* the type/scale of the group rows of the file, in file order
RECURSIVE GroupsOf(_)
GroupsOf(lines) ==
    IF lines = <<>> THEN <<>>
    ELSE (IF IsGroup(Head(lines)) THEN <<Field(Head(lines), "type/scale")>> ELSE <<>>)
            \o GroupsOf(Tail(lines))

\* C5 witness: the run over the sections 1, 1, 2, 2, 4 is over and the group
\* rows of the file are G0, G1, G3
GroupsOfExample ==
    /\ pc = "done"
    /\ [i \in 1..Len(survey_file) |-> survey_file[i].section] = <<1, 1, 2, 2, 4>>
    /\ GroupsOf(outfile) = <<"G0", "G1", "G3">>

\* the lines of a file, each without its line terminator
LinesOf(content) ==
    [i \in 1..Len(readlines(content)) |->
        LET line == readlines(content)[i]
        IN  IF line[Len(line)] = "\n" THEN SubSeq(line, 1, Len(line) - 1) ELSE line]

\* C10: the list get_answer returns is the lines of the answer file, each
\* without its line terminator and nothing else removed
AnswersAreLines ==
    (pc \in {"rows", "done"} /\ row_idx >= 1
        /\ Lower(LastRow.answer_format) \in {"one choice", "ranking"})
    => answers = LinesOf(listAnswers)

\* C6: a 'one choice' row writes its question row (name = code, text =
\* question, language = en, other = Y) and then, for an answer file of k
\* lines, k answer rows named 1..k whose text is the line up to its first
\* ';' without the surrounding double quotes, and nothing else
OneChoiceEmission ==
    [][(AtRow /\ Lower(NextRow.answer_format) = "one choice") =>
        LET g == IF NextRow.section - 1 # nbr_section THEN 1 ELSE 0
            lines == LinesOf(listAnswers)
        IN  /\ Len(Appended) = g + 1 + Len(lines)
            /\ Field(Appended[g + 1], "class") = "Q"
            /\ Field(Appended[g + 1], "name") = NextRow.code
            /\ Field(Appended[g + 1], "text") = NextRow.question
            /\ Field(Appended[g + 1], "language") = "en"
            /\ Field(Appended[g + 1], "other") = "Y"
            /\ \A n \in 1..Len(lines) :
                  /\ Field(Appended[g + 1 + n], "class") = "A"
                  /\ Field(Appended[g + 1 + n], "name") = ToString(n)
                  /\ Field(Appended[g + 1 + n], "text")
                        = Join(StripQuotes(FirstField(lines[n])))]_vars

\* the number of lines of a file: its terminators, and one more line when the
\* last character is no terminator
NumLines(content) ==
    Cardinality({i \in 1..Len(content) : content[i] = "\n"})
        + (IF content # <<>> /\ content[Len(content)] # "\n" THEN 1 ELSE 0)

\* C7: a 'ranking' row writes its question row, then exactly 8 sub-question
\* rows (class SQ, type/scale 0, name i, text "Rank i", i = 1..8 in order),
\* then one answer row per line of the answer file, whatever their number
RankingFixedCardinality ==
    [][(AtRow /\ Lower(NextRow.answer_format) = "ranking") =>
        LET g == IF NextRow.section - 1 # nbr_section THEN 1 ELSE 0
            k == NumLines(listAnswers)
        IN  /\ Len(Appended) = g + 1 + 8 + k
            /\ Field(Appended[g + 1], "class") = "Q"
            /\ Field(Appended[g + 1], "name") = NextRow.code
            /\ Field(Appended[g + 1], "text") = NextRow.question
            /\ \A i \in 1..8 :
                  /\ Field(Appended[g + 1 + i], "class") = "SQ"
                  /\ Field(Appended[g + 1 + i], "type/scale") = "0"
                  /\ Field(Appended[g + 1 + i], "name") = ToString(i)
                  /\ Field(Appended[g + 1 + i], "text") = "Rank " \o ToString(i)
            /\ \A n \in 1..k : Field(Appended[g + 9 + n], "class") = "A"
            /\ Cardinality({i \in 1..Len(Appended) :
                              Field(Appended[i], "class") = "SQ"}) = 8]_vars

\* C7 witness: the walker has handled a ranking row whose answer file has
\* more than 8 lines
RankingLongFileDone ==
    /\ pc \in {"rows", "done"}
    /\ row_idx >= 1
    /\ Lower(LastRow.answer_format) = "ranking"
    /\ NumLines(listAnswers) > 8
    /\ Len(answers) > 8

-----------------------------------------------------------------------------
(* The property of the output file.                                        *)

\* the fields of main_headers in their order, '' for a field the record lacks
Projected(rec) ==
    [i \in 1..Len(main_headers) |->
        IF main_headers[i] \in DOMAIN rec THEN rec[main_headers[i]] ELSE ""]

\* the rank dictionary main() builds for the rank i
RankDict(i) ==
    ("type/scale" :> "0")
    @@ [class |-> "SQ", name |-> ToString(i), relevance |-> "1",
        text |-> "Rank " \o ToString(i), language |-> "en"]

\* C9: every line of the output file has len(main_headers) fields in the
\* order of main_headers, the fields its record lacks being '': the header
\* line is main_headers, the header and description lines are their records
\* field by field, a rank line is its partial dictionary field by field, and
\* on every line each column holds a value of its own field
SchemaCompleteness ==
    /\ \A i \in 1..Len(outfile) : Len(outfile[i]) = Len(main_headers)
    /\ outfile # <<>> => outfile[1] = main_headers
    /\ pc \notin {"init_outfile", "create_header", "add_header"} =>
          \A i \in 1..Len(config_header) :
              i + 1 <= Len(outfile) =>
                  outfile[i + 1] = Projected(heap[config_header[i]])
    /\ pc \notin {"init_outfile", "create_header", "add_header",
                  "create_description", "add_description"} =>
          \A i \in 1..Len(config_description) :
              i + 1 + Len(config_header) <= Len(outfile) =>
                  outfile[i + 1 + Len(config_header)]
                      = Projected(heap[config_description[i]])
    /\ \A i \in 2..Len(outfile) :
          /\ Field(outfile[i], "class") \in {"S", "SL", "G", "Q", "SQ", "A"}
          /\ Field(outfile[i], "relevance") \in {"", "1"}
          /\ Field(outfile[i], "help") = ""
          /\ Field(outfile[i], "language") \in {"", "en"}
          /\ Field(outfile[i], "other") \in {"", "Y"}
          /\ Field(outfile[i], "class") = "G" =>
                \/ Field(outfile[i], "type/scale") = "G0"
                \/ \E r \in 1..Len(survey_file) :
                      Field(outfile[i], "type/scale")
                          = "G" \o ToString(survey_file[r].section - 1)
          /\ Field(outfile[i], "class") = "SQ" =>
                \E n \in 1..8 : outfile[i] = Projected(RankDict(n))

\* C9 witness: the run is over and the file holds header, description,
\* group, question, rank and answer lines
EveryKindOfLineWritten ==
    /\ pc = "done"
    /\ Len(config_header) > 0
    /\ Len(config_description) > 0
    /\ \A c \in {"S", "SL", "G", "Q", "SQ", "A"} :
          \E i \in 2..Len(outfile) : Field(outfile[i], "class") = c

=============================================================================
